---- MODULE Spec2Model ----
(***************************************************************************)
(* Model of movie_recommendation_app.py: a Streamlit script that is run    *)
(* from top to bottom on every interaction.  One run loads the dataset,    *)
(* checks its columns, normalises it into the catalog `movies`, restores   *)
(* or defaults the three persisted selections, reads the three select      *)
(* boxes, filters the catalog, takes the first match and samples           *)
(* recommendations for it.                                                 *)
(*                                                                         *)
(* Text that the script converts (Language, Genre) is a sequence of        *)
(* one-character strings, so that str.strip() and str.title() are computed *)
(* character by character.  Image_Path is a sequence of path tokens.       *)
(***************************************************************************)
EXTENDS Integers, Sequences, FiniteSets, TLC

VARIABLES fileReadable, columns, rawRows, session, out, memo

vars == <<fileReadable, columns, rawRows, session, out, memo>>

-----------------------------------------------------------------------------
(* Bounds of the model *)

\* sources of up to MaxShuffled rows hold their rows in every order
MaxShuffled == 2

\* longer sources, up to MaxRows rows, hold them in the order of the pool or
\* in the reverse order
MaxRows == 5

\* a source that lacks a required column holds the first rows of the pool, up
\* to MaxRowsBadSource of them
MaxRowsBadSource == 2

-----------------------------------------------------------------------------
(* Python / pandas helpers *)

NaN == <<"NaN">>

Lowers == <<"a", "c", "d", "f", "h", "i", "r", "s", "t">>

Uppers == <<"A", "C", "D", "F", "H", "I", "R", "S", "T">>

Range(s) == {s[i] : i \in DOMAIN s}

LowerSet == Range(Lowers)

UpperSet == Range(Uppers)

IsLower(c) == c \in LowerSet

IsUpper(c) == c \in UpperSet

IsCased(c) == IsLower(c) \/ IsUpper(c)

PosIn(s, c) == CHOOSE i \in DOMAIN s : s[i] = c

ToUpper == [c \in LowerSet |-> Uppers[PosIn(Lowers, c)]]

ToLower == [c \in UpperSet |-> Lowers[PosIn(Uppers, c)]]

\* str.upper() of one character
Upper(c) == IF IsLower(c) THEN ToUpper[c] ELSE c

\* str.lower() of one character
Lower(c) == IF IsUpper(c) THEN ToLower[c] ELSE c

IsSpace(c) == c = " "

\* code point order: space < upper case < lower case
CodePoint ==
    [c \in {" "} \cup UpperSet \cup LowerSet |->
        IF c = " " THEN 0
        ELSE IF c \in UpperSet THEN 10 + PosIn(Uppers, c)
        ELSE 40 + PosIn(Lowers, c)]

Ord(c) == CodePoint[c]

RECURSIVE LStrip(_)
LStrip(s) == IF s # <<>> /\ IsSpace(Head(s)) THEN LStrip(Tail(s)) ELSE s

RECURSIVE RStrip(_)
RStrip(s) == IF s # <<>> /\ IsSpace(s[Len(s)])
             THEN RStrip(SubSeq(s, 1, Len(s) - 1)) ELSE s

\* str.strip()
Strip(s) == RStrip(LStrip(s))

\* str.title(): a cased character is upper-cased when it does not follow a
\* cased character, lower-cased when it does
Title(s) == [i \in DOMAIN s |->
               IF i > 1 /\ IsCased(s[i - 1]) THEN Lower(s[i]) ELSE Upper(s[i])]

\* Series.str.strip().str.title(); missing values stay missing
StripTitle(v) == IF v = NaN THEN NaN ELSE Title(Strip(v))

\* str < str
RECURSIVE LessStr(_, _)
LessStr(a, b) ==
    IF b = <<>> THEN FALSE
    ELSE IF a = <<>> THEN TRUE
    ELSE IF Ord(Head(a)) # Ord(Head(b)) THEN Ord(Head(a)) < Ord(Head(b))
    ELSE LessStr(Tail(a), Tail(b))

\* sorted(iterable) of distinct numbers
SortedInts(S) ==
    [k \in 1..Cardinality(S) |->
        CHOOSE x \in S : Cardinality({y \in S : y < x}) = k - 1]

\* sorted(iterable) of distinct strings
SortedStrs(S) ==
    [k \in 1..Cardinality(S) |->
        CHOOSE x \in S : Cardinality({y \in S : LessStr(y, x)}) = k - 1]

RECURSIVE SelectFrom(_, _, _)
SelectFrom(df, kept, i) ==
    IF i > Len(df) THEN <<>>
    ELSE IF i \in kept THEN <<df[i]>> \o SelectFrom(df, kept, i + 1)
    ELSE SelectFrom(df, kept, i + 1)

\* boolean-mask selection df[mask]: the rows at the positions in kept, in order
SelectRows(df, kept) == SelectFrom(df, kept, 1)

\* element-wise == of pandas: a missing value equals nothing
Eq(a, b) == a # NaN /\ b # NaN /\ a = b

\* Series.unique()
Unique(df, col) == {df[i][col] : i \in DOMAIN df}

\* Series.dropna() on a text column
DropNa(S) == {v \in S : v # NaN}

\* the sequences of at most n elements of S, none repeated
SeqsUpTo(S, n) ==
    UNION {{q \in [1..k -> S] : \A i, j \in 1..k : q[i] = q[j] => i = j} : k \in 0..n}

EmptyFn == [k \in {} |-> 0]

-----------------------------------------------------------------------------
(* The data source: movies_dataset.xlsx *)

\* the column names a source may carry
KnownColumns ==
    {"Title", "Description", "Language", "Genre", "Year", "Rating", "Image_Path",
     "Poster"}

Row(t, d, l, g, y, r, img) ==
    [Title |-> t, Description |-> d, Language |-> l, Genre |-> g,
     Year |-> y, Rating |-> r, Image_Path |-> img]

\* the rows a source may hold: several raw spellings of the same language
\* and genre, a second language and genre, a missing genre, years inside,
\* below and above 2014..2024, repeated titles, and poster paths with and
\* without the two known defects; each row has a description of its own
PoolRows ==
    <<Row("T1", "d1",  <<"h", "i">>,      <<"a", "c">>,      2014, 7, <<"poster/", "a", "_", ".jpg">>),
      Row("T1", "d2", <<" ", "H", "I">>, <<"A", "c", " ">>, 2014, 7, <<"posters/", "b", ".jpg">>),
      Row("T2", "d3", <<"H", "i">>,      <<"A", "C">>,      2014, 8, <<"posters/", "c", "_", ".jpg">>),
      Row("T3", "d4", <<"h", "I", " ">>, <<"a", "c">>,      2024, 7, <<"poster/", "d", ".jpg">>),
      Row("T1", "d5", <<"H", "i">>,      <<"A", "c">>,      2024, 9, NaN),
      Row("T4", "d6", <<"H", "i">>,      <<"A", "c">>,      2015, 7, <<"posters/", "_", ".jpg", "e">>),
      Row("T5", "d7", <<"t", " ", "a">>, <<"s", " ", "f">>, 2020, 6, <<"posters/", "f", ".jpg">>),
      Row("T2", "d8", <<"H", "i">>,      <<"A", "c">>,      2013, 8, <<"posters/", "g", ".jpg">>),
      Row("T3", "d9", <<"H", "i">>,      <<"A", "c">>,      2025, 7, <<"posters/", "h", ".jpg">>),
      Row("T6", "d10", <<"H", "i">>,     NaN,               2020, 5, <<"posters/", "i", ".jpg">>) >>

RawRowPool == Range(PoolRows)

-----------------------------------------------------------------------------
(* Loading and normalisation, lines 29-57 *)

required_columns ==
    {"Title", "Description", "Language", "Genre", "Year", "Rating", "Image_Path"}

MissingColumnsMessage == <<"Dataset", "is", "missing", "required", "columns!">>

LoadErrorMessage == <<"Error", "loading", "dataset:", "FileNotFoundError">>

\* a check that is satisfied by any one of the required columns
HasSomeRequiredColumn(cols) == required_columns \cap cols # {}

\* required_columns.issubset(movies.columns)
HasRequiredColumns(cols) == required_columns \subseteq cols

\* str.replace('poster/', 'posters/') then str.replace(r'_\.jpg$', '.jpg')
FixImagePath(p) ==
    IF p = NaN THEN NaN
    ELSE LET q == [i \in DOMAIN p |-> IF p[i] = "poster/" THEN "posters/" ELSE p[i]]
             n == Len(q)
         IN  IF n >= 2 /\ q[n - 1] = "_" /\ q[n] = ".jpg"
             THEN SubSeq(q, 1, n - 2) \o <<".jpg">>
             ELSE q

FixPosterPaths(df) ==
    [i \in DOMAIN df |-> [df[i] EXCEPT !.Image_Path = FixImagePath(@)]]

\* a range test without the upper end
YearFrom2014(row) == row.Year >= 2014

YearInRange(row) == row.Year >= 2014 /\ row.Year <= 2024

\* movies[(movies['Year'] >= 2014) & (movies['Year'] <= 2024)]
RangeFilter(df) == SelectRows(df, {i \in DOMAIN df : YearInRange(df[i])})

\* Language and Genre: .str.strip().str.title()
Standardize(df) ==
    [i \in DOMAIN df |-> [df[i] EXCEPT !.Language = StripTitle(@),
                                       !.Genre = StripTitle(@)]]

DedupKey(row) == <<row.Title, row.Language, row.Genre, row.Year, row.Rating>>

\* drop_duplicates with keep='last'
DropDuplicatesKeepLast(df) ==
    SelectRows(df, {i \in DOMAIN df :
                       \A j \in (i + 1)..Len(df) : DedupKey(df[j]) # DedupKey(df[i])})

\* drop_duplicates(subset=[...]), keep='first'
DropDuplicates(df) ==
    SelectRows(df, {i \in DOMAIN df :
                       \A j \in 1..(i - 1) : DedupKey(df[j]) # DedupKey(df[i])})

\* lines 41-52
BuildCatalog(raw) == DropDuplicates(Standardize(RangeFilter(FixPosterPaths(raw))))

language_options(df) == SortedStrs(DropNa(Unique(df, "Language")))

genre_options(df) == SortedStrs(DropNa(Unique(df, "Genre")))

year_options(df) == SortedInts(Unique(df, "Year"))

-----------------------------------------------------------------------------
(* Session state and widgets, lines 59-85 *)

NoPick == [widget |-> "none", value |-> 0]

\* list.index(v): position (from 0) of the first element equal to v
IndexOf(options, v) ==
    (CHOOSE i \in DOMAIN options :
        options[i] = v /\ \A j \in 1..(i - 1) : options[j] # v) - 1

\* st.selectbox(label, options, index): the option the user picked in this
\* run, otherwise the option at `index`
Selectbox(name, options, index, pick) ==
    IF pick.widget = name THEN pick.value ELSE options[index + 1]

\* if "key" not in st.session_state: st.session_state["key"] = options[0]
SetDefault(sess, key, options) ==
    IF key \in DOMAIN sess THEN sess ELSE (key :> options[1]) @@ sess

\* a widget value that is never stored
UpdateSelectionNever(sess, key, temp) == sess

\* if temp != st.session_state["key"]: st.session_state["key"] = temp
UpdateSelection(sess, key, temp) ==
    IF temp # sess[key] THEN [sess EXCEPT ![key] = temp] ELSE sess

-----------------------------------------------------------------------------
(* Filtering and recommendation, lines 87-148 *)

\* a filter that leaves the year out
FilterMoviesAnyYear(df, sess) ==
    LET Match(row) == /\ Eq(row.Genre, sess["selected_genre"])
                      /\ Eq(row.Language, sess["selected_language"])
    IN  SelectRows(df, {i \in DOMAIN df : Match(df[i])})

\* lines 88-92
FilterMovies(df, sess) ==
    LET Match(row) == /\ row.Year = sess["selected_year"]
                      /\ Eq(row.Genre, sess["selected_genre"])
                      /\ Eq(row.Language, sess["selected_language"])
    IN  SelectRows(df, {i \in DOMAIN df : Match(df[i])})

\* an emptiness test that never fires
IsEmptyNever(df) == FALSE

\* DataFrame.empty
IsEmpty(df) == Len(df) = 0

\* filtered_movies.iloc[0] raises IndexError on an empty frame
HasFirst(df) == Len(df) >= 1

\* a mask without the title test
CandidatesAnyTitle(df, selected_movie) ==
    LET Similar(row) == /\ Eq(row.Language, selected_movie.Language)
                        /\ Eq(row.Genre, selected_movie.Genre)
    IN  SelectRows(df, {i \in DOMAIN df : Similar(df[i])})

\* lines 129-133, the boolean mask
Candidates(df, selected_movie) ==
    LET Similar(row) == /\ row.Title # selected_movie.Title
                        /\ Eq(row.Language, selected_movie.Language)
                        /\ Eq(row.Genre, selected_movie.Genre)
    IN  SelectRows(df, {i \in DOMAIN df : Similar(df[i])})

\* min(3, len(movies))
SampleSize(df) == IF Len(df) < 3 THEN Len(df) ELSE 3

\* numpy RandomState(42).permutation(N), N = 1..6
Permutation42 ==
    << <<0>>,
       <<1, 0>>,
       <<0, 1, 2>>,
       <<1, 3, 0, 2>>,
       <<1, 4, 2, 0, 3>>,
       <<0, 1, 5, 2, 4, 3>> >>

\* DataFrame.sample raises ValueError when asked for more rows than it has
SampleFails(df, n) == n > Len(df)

\* DataFrame.sample(n) without random_state: the draw comes from a generator
\* that earlier draws have advanced
SampleUnseeded(df, n) ==
    LET drawn == IF memo = <<>> THEN 0 ELSE 1
    IN  [k \in 1..n |-> df[((Permutation42[Len(df)][k] + drawn) % Len(df)) + 1]]

\* DataFrame.sample(n, random_state=42): the first n positions of the
\* permutation of the frame's length
Sample(df, n) == [k \in 1..n |-> df[Permutation42[Len(df)][k] + 1]]

-----------------------------------------------------------------------------
(* One run of the script, a stage at a time.  A stage gets the record of   *)
(* what the run has done so far and returns it extended; a run that has    *)
(* stopped (st.stop() or an uncaught exception) passes through unchanged.  *)

NotRun(sess) ==
    [outcome |-> "not_run", message |-> <<>>, session |-> sess, steps |-> {},
     fresh |-> FALSE, movies |-> <<>>,
     year_options |-> <<>>, genre_options |-> <<>>, language_options |-> <<>>,
     temp |-> EmptyFn, filtered_movies |-> <<>>, selected_movie |-> <<>>,
     recommendations |-> <<>>]

Running(r) == r.outcome = "running"

\* lines 29-38
Load(sess) ==
    LET start == [NotRun(sess) EXCEPT !.outcome = "running",
                                      !.fresh = (DOMAIN sess = {})]
    IN  IF ~fileReadable
        THEN [start EXCEPT !.outcome = "load_error", !.message = LoadErrorMessage,
                           !.steps = {"load"}]
        ELSE IF ~HasRequiredColumns(columns)
        THEN [start EXCEPT !.outcome = "schema_error",
                           !.message = MissingColumnsMessage,
                           !.steps = {"load", "columns_check"}]
        ELSE [start EXCEPT !.steps = {"load", "columns_check"}]

\* lines 40-52
Normalize(r) ==
    IF ~Running(r) THEN r
    ELSE [r EXCEPT !.movies = BuildCatalog(rawRows),
                   !.steps = @ \cup {"path_repair", "range_filter", "standardize", "dedup"}]

\* lines 54-57
Options(r) ==
    IF ~Running(r) THEN r
    ELSE [r EXCEPT !.year_options = year_options(r.movies),
                   !.genre_options = genre_options(r.movies),
                   !.language_options = language_options(r.movies),
                   !.steps = @ \cup {"options"}]

\* lines 60-65: options[0] raises IndexError on an empty list, after the
\* earlier keys have been stored
Defaults(r) ==
    IF ~Running(r) THEN r
    ELSE LET sess == r.session
             okY  == "selected_year" \in DOMAIN sess \/ r.year_options # <<>>
             s1   == SetDefault(sess, "selected_year", r.year_options)
             okG  == "selected_genre" \in DOMAIN sess \/ r.genre_options # <<>>
             s2   == SetDefault(s1, "selected_genre", r.genre_options)
             okL  == "selected_language" \in DOMAIN sess \/ r.language_options # <<>>
             s3   == SetDefault(s2, "selected_language", r.language_options)
             done == [r EXCEPT !.steps = @ \cup {"defaults"}]
         IN  IF ~okY THEN [done EXCEPT !.outcome = "index_error"]
             ELSE IF ~okG THEN [done EXCEPT !.outcome = "index_error", !.session = s1]
             ELSE IF ~okL THEN [done EXCEPT !.outcome = "index_error", !.session = s2]
             ELSE [done EXCEPT !.session = s3]

\* lines 71-77: list.index raises ValueError for a value that is not listed
Widgets(r, pick) ==
    IF ~Running(r) THEN r
    ELSE LET sess == r.session
             yo   == r.year_options
             go   == r.genre_options
             lo   == r.language_options
             done == [r EXCEPT !.steps = @ \cup {"widgets"}]
         IN  IF ~(/\ sess["selected_year"] \in Range(yo)
                  /\ sess["selected_genre"] \in Range(go)
                  /\ sess["selected_language"] \in Range(lo))
             THEN [done EXCEPT !.outcome = "value_error"]
             ELSE [done EXCEPT !.temp =
                     [year     |-> Selectbox("year", yo,
                                       IndexOf(yo, sess["selected_year"]), pick),
                      genre    |-> Selectbox("genre", go,
                                       IndexOf(go, sess["selected_genre"]), pick),
                      language |-> Selectbox("language", lo,
                                       IndexOf(lo, sess["selected_language"]), pick)]]

\* lines 80-85
Update(r) ==
    IF ~Running(r) THEN r
    ELSE LET s4 == UpdateSelection(r.session, "selected_year", r.temp.year)
             s5 == UpdateSelection(s4, "selected_genre", r.temp.genre)
             s6 == UpdateSelection(s5, "selected_language", r.temp.language)
         IN  [r EXCEPT !.session = s6, !.steps = @ \cup {"update"}]

\* lines 88-100
Filter(r) ==
    IF ~Running(r) THEN r
    ELSE LET fm   == FilterMovies(r.movies, r.session)
             done == [r EXCEPT !.filtered_movies = fm, !.steps = @ \cup {"filter"}]
         IN  IF IsEmpty(fm) THEN [done EXCEPT !.outcome = "no_movies"]
             ELSE IF ~HasFirst(fm)
             THEN [done EXCEPT !.outcome = "index_error",
                               !.steps = @ \cup {"select_first"}]
             ELSE [done EXCEPT !.selected_movie = <<fm[1]>>,
                               !.steps = @ \cup {"select_first"}]

\* lines 115-148
show_recommendations(r) ==
    IF ~Running(r) THEN r
    ELSE LET cnd  == Candidates(r.movies, r.selected_movie[1])
             n    == SampleSize(r.movies)
             done == [r EXCEPT !.steps = @ \cup {"recommend"}]
         IN  IF SampleFails(cnd, n) THEN [done EXCEPT !.outcome = "sample_error"]
             ELSE [done EXCEPT !.outcome = "shown",
                               !.recommendations = Sample(cnd, n)]

-----------------------------------------------------------------------------
(* The state machine *)

\* the sources of at most n rows taken from the pool in its order or in the
\* reverse order
OrderedUpTo(n) ==
    UNION {LET idx == SortedInts(S)
               k   == Cardinality(S)
           IN  {[i \in 1..k |-> PoolRows[idx[i]]],
                [i \in 1..k |-> PoolRows[idx[k + 1 - i]]]} :
           S \in {T \in SUBSET DOMAIN PoolRows : Cardinality(T) <= n}}

\* an unreadable file, a file lacking some columns, or a complete file
Sources ==
    [readable : {FALSE}, columns : {{}}, rows : {<<>>}]
    \cup [readable : {TRUE},
          columns : {c \in SUBSET KnownColumns : ~(required_columns \subseteq c)},
          rows : {SubSeq(PoolRows, 1, k) : k \in 0..MaxRowsBadSource}]
    \cup [readable : {TRUE}, columns : {required_columns},
          rows : SeqsUpTo(RawRowPool, MaxShuffled) \cup OrderedUpTo(MaxRows)]

Init ==
    /\ \E src \in Sources :
          /\ fileReadable = src.readable
          /\ columns = src.columns
          /\ rawRows = src.rows
    /\ session = EmptyFn
    /\ out = NotRun(EmptyFn)
    /\ memo = <<>>

WidgetsShown == out.outcome \in {"no_movies", "sample_error", "shown"}

\* the first run of the recommendation step is remembered: what was chosen
\* and what came back, and whether a later run chose another record
Remember(res) ==
    IF "recommend" \notin res.steps THEN memo
    ELSE IF memo = <<>>
    THEN <<[chosen |-> res.selected_movie, outcome |-> res.outcome,
            recommendations |-> res.recommendations, others |-> FALSE]>>
    ELSE IF res.selected_movie # memo[1].chosen
    THEN <<[memo[1] EXCEPT !.others = TRUE]>>
    ELSE memo

\* the whole script, top to bottom, for one widget event
RunScript(sess, pick) ==
    \E r1 \in {Load(sess)} :
    \E r2 \in {Normalize(r1)} :
    \E r3 \in {Options(r2)} :
    \E r4 \in {Defaults(r3)} :
    \E r5 \in {Widgets(r4, pick)} :
    \E r6 \in {Update(r5)} :
    \E r7 \in {Filter(r6)} :
    \E res \in {show_recommendations(r7)} :
        /\ out' = res
        /\ session' = res.session
        /\ memo' = Remember(res)
        /\ UNCHANGED <<fileReadable, columns, rawRows>>

\* the script runs again without a widget having changed
Rerun == RunScript(session, NoPick)

\* a new browser session: the script runs with an empty session state
NewSession == out.outcome # "not_run" /\ RunScript(EmptyFn, NoPick)

SelectYear ==
    /\ WidgetsShown
    /\ \E v \in Range(out.year_options) \ {out.temp.year} :
          RunScript(session, [widget |-> "year", value |-> v])

SelectGenre ==
    /\ WidgetsShown
    /\ \E v \in Range(out.genre_options) \ {out.temp.genre} :
          RunScript(session, [widget |-> "genre", value |-> v])

SelectLanguage ==
    /\ WidgetsShown
    /\ \E v \in Range(out.language_options) \ {out.temp.language} :
          RunScript(session, [widget |-> "language", value |-> v])

Next == Rerun \/ NewSession \/ SelectYear \/ SelectGenre \/ SelectLanguage

Spec == Init /\ [][Next]_vars

-----------------------------------------------------------------------------
(* Properties *)

HasRun == out.outcome # "not_run"

Catalogued == "dedup" \in out.steps

Filtered == "filter" \in out.steps

Recommended == "recommend" \in out.steps

Chosen == out.selected_movie[1]

SameLanguageAndGenre(row, r) == row.Language = r.Language /\ row.Genre = r.Genre

\* number of catalog records with the language and genre of r and another title
CandidateCount(r) ==
    Cardinality({i \in DOMAIN out.movies :
                    /\ out.movies[i].Title # r.Title
                    /\ SameLanguageAndGenre(out.movies[i], r)})

Min(a, b) == IF a < b THEN a ELSE b

\* C1: whenever the recommendation step runs for a chosen record, it does
\* not fail and returns exactly min(3, candidate_count) records, all of the
\* candidates when there are fewer than 3.
C1_RecommendationCount ==
    Recommended =>
        /\ out.outcome = "shown"
        /\ Len(out.recommendations) = Min(3, CandidateCount(Chosen))

\* C2: no recommended record has the title of the chosen record, and every
\* recommended record is a catalog record with the language and the genre of
\* the chosen record.
C2_RecommendationsExcludeTitle ==
    Recommended =>
        \A k \in DOMAIN out.recommendations :
            /\ out.recommendations[k].Title # Chosen.Title
            /\ SameLanguageAndGenre(out.recommendations[k], Chosen)
            /\ out.recommendations[k] \in Range(out.movies)

\* three recommendations are shown while another catalog record with the
\* chosen record's title, language and genre was left out
C2_Witness ==
    /\ out.outcome = "shown"
    /\ Len(out.recommendations) = 3
    /\ \E i \in DOMAIN out.movies :
          /\ out.movies[i] # Chosen
          /\ out.movies[i].Title = Chosen.Title
          /\ SameLanguageAndGenre(out.movies[i], Chosen)

Selected(row) ==
    /\ row.Year = out.session["selected_year"]
    /\ row.Genre = out.session["selected_genre"]
    /\ row.Language = out.session["selected_language"]

\* C3: the filtered result holds exactly the catalog records whose year,
\* genre and language equal the selected values, in catalog order, and the
\* selected movie is the first of them.
C3_FilterExact ==
    Filtered =>
        /\ \A k \in DOMAIN out.filtered_movies : Selected(out.filtered_movies[k])
        /\ \A i \in DOMAIN out.movies :
              Selected(out.movies[i]) => out.movies[i] \in Range(out.filtered_movies)
        /\ \A k \in DOMAIN out.filtered_movies :
              out.filtered_movies[k] \in Range(out.movies)
        /\ \A k \in 1..(Len(out.filtered_movies) - 1) : \A i, j \in DOMAIN out.movies :
              (out.movies[i] = out.filtered_movies[k]
                  /\ out.movies[j] = out.filtered_movies[k + 1]) => i < j
        /\ \A m \in Range(out.selected_movie) :
              \E i \in DOMAIN out.movies :
                  /\ out.movies[i] = m
                  /\ Selected(m)
                  /\ \A j \in 1..(i - 1) : ~Selected(out.movies[j])

\* two records match, after a record that does not
C3_Witness ==
    /\ Filtered
    /\ Len(out.filtered_movies) >= 2
    /\ out.selected_movie # <<>>
    /\ ~Selected(out.movies[1])

SixRequired == {"Title", "Description", "Language", "Genre", "Year", "Rating"}

PosterAliases == {"Image_Path", "Poster", "Poster_Path", "Poster_URL"}

\* C4: a readable source with the six required columns and no poster column
\* is accepted: no schema error, and a catalog is built whose records have no
\* poster reference.
C4_PosterColumnOptional ==
    (HasRun /\ fileReadable /\ SixRequired \subseteq columns
            /\ columns \cap PosterAliases = {}) =>
        /\ out.outcome # "schema_error"
        /\ Catalogued
        /\ \A i \in DOMAIN out.movies : out.movies[i].Image_Path = NaN

RequiredFieldMissing == fileReadable /\ ~(SixRequired \subseteq columns)

NothingAfterLoading ==
    /\ out.steps = {"load", "columns_check"}
    /\ out.movies = <<>>
    /\ out.year_options = <<>> /\ out.genre_options = <<>> /\ out.language_options = <<>>
    /\ out.filtered_movies = <<>>
    /\ out.selected_movie = <<>>
    /\ out.recommendations = <<>>
    /\ out.session = session

\* C5 as stated: when a required field is absent, loading ends in a schema
\* error that carries the names of the missing fields, and nothing after the
\* column check is executed.
C5_SchemaErrorNamesFields ==
    (HasRun /\ RequiredFieldMissing) =>
        /\ out.outcome = "schema_error"
        /\ (SixRequired \ columns) \subseteq Range(out.message)
        /\ NothingAfterLoading

\* C5 amended: when a required field is absent, loading ends in a schema
\* error reported with the fixed text "Dataset is missing required columns!",
\* and nothing after the column check is executed: no catalog is produced.
C5_SchemaErrorStops ==
    (HasRun /\ RequiredFieldMissing) =>
        /\ out.outcome = "schema_error"
        /\ out.message = <<"Dataset", "is", "missing", "required", "columns!">>
        /\ NothingAfterLoading

\* a run of a source that has rows but lacks two required fields
C5_Witness ==
    /\ out.outcome = "schema_error"
    /\ Cardinality(SixRequired \ columns) >= 2
    /\ rawRows # <<>>

CatalogKey(row) == <<row.Title, row.Language, row.Genre, row.Year, row.Rating>>

\* the key a raw row has once its language and genre are trimmed and title-cased
RawKey(row) ==
    <<row.Title, StripTitle(row.Language), StripTitle(row.Genre), row.Year, row.Rating>>

InRange(y) == 2014 <= y /\ y <= 2024

\* C6: no two catalog records share (title, language, genre, year, rating);
\* each catalog record is the first raw row, in source order, of those that
\* collapse to its key, and the records keep their relative source order.
C6_Dedup ==
    Catalogued =>
      \A key \in {[i \in DOMAIN rawRows |-> RawKey(rawRows[i])]} :
        /\ \A i, j \in DOMAIN out.movies :
              CatalogKey(out.movies[i]) = CatalogKey(out.movies[j]) => i = j
        /\ \A k \in DOMAIN out.movies : \E i \in DOMAIN rawRows :
              /\ key[i] = CatalogKey(out.movies[k])
              /\ rawRows[i].Description = out.movies[k].Description
              /\ \A h \in 1..(i - 1) : key[h] # key[i]
        /\ \A k \in 1..(Len(out.movies) - 1) : \A i, j \in DOMAIN rawRows :
              (rawRows[i].Description = out.movies[k].Description
                  /\ rawRows[j].Description = out.movies[k + 1].Description) => i < j

\* two raw rows spelt differently collapse to one key, and the catalog has
\* other records as well
C6_Witness ==
    /\ Catalogued
    /\ Len(out.movies) >= 2
    /\ \E i, j \in DOMAIN rawRows :
          /\ i < j
          /\ RawKey(rawRows[i]) = RawKey(rawRows[j])
          /\ rawRows[i].Language # rawRows[j].Language

\* C7: every catalog record has 2014 <= year <= 2024, no raw row with a year
\* outside that range is in the catalog, and every year offered for selection
\* is in the range and is the year of a catalog record.
C7_YearRange ==
    Catalogued =>
        /\ \A i \in DOMAIN out.movies : InRange(out.movies[i].Year)
        /\ \A i \in DOMAIN rawRows :
              ~InRange(rawRows[i].Year) =>
                  \A k \in DOMAIN out.movies :
                      out.movies[k].Description # rawRows[i].Description
        /\ \A k \in DOMAIN out.year_options :
              /\ InRange(out.year_options[k])
              /\ \E i \in DOMAIN out.movies : out.movies[i].Year = out.year_options[k]

\* a source with a row before 2014, a row after 2024 and rows in between
C7_Witness ==
    /\ Catalogued
    /\ out.movies # <<>>
    /\ \E i, j \in DOMAIN rawRows : rawRows[i].Year < 2014 /\ rawRows[j].Year > 2024

\* C8: a selection that matches no catalog record ends the run with the
\* 'no movies found' outcome, not an error, and neither the first-record
\* selection nor the recommendation step is executed.
C8_EmptyFilterIsNormal ==
    (Filtered /\ out.filtered_movies = <<>>) =>
        /\ out.outcome = "no_movies"
        /\ "select_first" \notin out.steps
        /\ ~Recommended
        /\ out.selected_movie = <<>>
        /\ out.recommendations = <<>>

\* a selection made by the user matches nothing in a catalog that has records
C8_Witness ==
    /\ out.outcome = "no_movies"
    /\ out.movies # <<>>
    /\ ~out.fresh

SmallestStr(v, options) == \A o \in Range(options) : ~LessStr(o, v)

\* C10: when the filter is evaluated, the persisted selections equal what
\* the three select boxes returned in this run, each is one of its options,
\* and in a run that started without persisted selections each is the
\* smallest of its options.
C10_SelectionsPersisted ==
    Filtered =>
        /\ session["selected_year"] = out.temp.year
        /\ session["selected_genre"] = out.temp.genre
        /\ session["selected_language"] = out.temp.language
        /\ session["selected_year"] \in Range(out.year_options)
        /\ session["selected_genre"] \in Range(out.genre_options)
        /\ session["selected_language"] \in Range(out.language_options)
        /\ out.fresh =>
              /\ \A y \in Range(out.year_options) : session["selected_year"] <= y
              /\ SmallestStr(session["selected_genre"], out.genre_options)
              /\ SmallestStr(session["selected_language"], out.language_options)

\* a later run in which the year and the language are not the defaults
C10_Witness ==
    /\ Filtered
    /\ ~out.fresh
    /\ session["selected_year"] # out.year_options[1]
    /\ session["selected_language"] # out.language_options[1]

====
